---- MODULE Spec2Model ----
(***************************************************************************)
(* Study App API (src/main.py, src/schemas.py): six request handlers over  *)
(* three collections of a document store (topic, card, studylog).          *)
(*                                                                         *)
(* Values.  A JSON/Python string is a TLA+ string.  An Optional value is a *)
(* sequence of length at most one: None is << >>, the string s is <<s>>.   *)
(* A request body is a function from the keys that are present to their    *)
(* JSON values.  An identifier value is a record [t, v]: t is the Python   *)
(* type ("ObjectId" or "str"), v the 24 hex digits.                        *)
(***************************************************************************)
EXTENDS Integers, Sequences, FiniteSets, Bags, TLC

VARIABLES
    db,        \* the store handle imported from database: "None" or "Database"
    topic,     \* collection "topic": sequence of documents, insertion order
    card,      \* collection "card"
    studylog,  \* collection "studylog"
    nextOid,   \* the store's generator of fresh ObjectIds
    inflight,  \* requests that passed their existence check and have not inserted yet
    issued,    \* the {id} responses of create topic the client has received
    last       \* the last request and the response it got

vars == <<db, topic, card, studylog, nextOid, inflight, issued, last>>

\* ------------------------------------------------------------------ bounds
MaxDocs == 3
MaxInflight == 1
MaxLogs == 3

\* ---------------------------------------------------- strings and identifiers
None == << >>

RECURSIVE Repeat(_, _)
Repeat(s, n) ==
    IF n = 0 THEN ""
    ELSE IF n % 2 = 1 THEN s \o Repeat(s, n - 1)
    ELSE LET half == Repeat(s, n \div 2) IN half \o half

\* the ObjectIds the store hands out, in order
OidNums == 1..(MaxDocs + MaxLogs)

\* str(ObjectId): 24 lower-case hex digits
HexOf(n) == "65a00000000000000000000" \o ToString(n)
\* the same 12 bytes written with upper-case hex digits
UpperOf(n) == "65A00000000000000000000" \o ToString(n)

\* bson.ObjectId.is_valid on a str: 24 hex digits of either case
IsValidOid(s) == \E n \in OidNums : s = HexOf(n) \/ s = UpperOf(n)

\* bytes.fromhex / hexlify: the canonical (lower-case) form of a valid id string
Canonical(s) ==
    IF \E n \in OidNums : s = UpperOf(n)
    THEN HexOf(CHOOSE n \in OidNums : s = UpperOf(n))
    ELSE s

\* ObjectId(s) for a valid s (the caller decides what InvalidId does)
ObjectId(s) == [t |-> "ObjectId", v |-> Canonical(s)]

\* str(x) of an ObjectId
StrOf(oid) == oid.v

\* ------------------------------------------------------------ the store
Store == [topic |-> topic, card |-> card, studylog |-> studylog,
          nextOid |-> nextOid, calls |-> 0]

Range(seq) == {seq[i] : i \in DOMAIN seq}

\* a filter document matches by exact equality on each of its fields
Matches(d, query) == \A k \in DOMAIN query : k \in DOMAIN d /\ d[k] = query[k]

\* collection.find(query): the matching documents, in store order
Find(coll, query) ==
    LET Test(d) == Matches(d, query) IN SelectSeq(coll, Test)

\* collection.find_one({"_id": oid}): <<doc>> or None
FindOneById(coll, oid) ==
    LET hits == Find(coll, [_id |-> oid])
    IN  IF hits = << >> THEN None ELSE <<hits[1]>>

\* database.get_documents(kind, filter)
get_documents(s, kind, query) == Find(s[kind], query)

\* database.create_document(kind, fields): one insert, the new id as a string
create_document(s, kind, fields) ==
    LET oid == [t |-> "ObjectId", v |-> HexOf(s.nextOid)]
        doc == ("_id" :> oid) @@ fields
    IN  [s  |-> [s EXCEPT ![kind] = Append(@, doc), !.nextOid = @ + 1, !.calls = @ + 1],
         id |-> StrOf(oid)]

\* ------------------------------------------------------------ serialize_doc
\* mutant: the ObjectId is passed through unconverted
M_serialize_doc(doc) == doc

serialize_doc(doc) ==
    IF DOMAIN doc = {} THEN doc
    ELSE IF "_id" \in DOMAIN doc /\ doc["_id"].t = "ObjectId"
         THEN [doc EXCEPT !["_id"] = [t |-> "str", v |-> StrOf(@)]]
         ELSE doc

\* [serialize_doc(d) for d in docs]
SerializeAll(docs) == [i \in DOMAIN docs |-> serialize_doc(docs[i])]

\* ------------------------------------------------------- request models
\* CreateTopic(BaseModel): name: str; description: Optional[str] = None
ValidCreateTopic(body) ==
    /\ "name" \in DOMAIN body
    /\ body.name # None

CreateTopic(body) ==
    [name        |-> body.name[1],
     description |-> IF "description" \in DOMAIN body THEN body.description ELSE None]

\* CreateCard(BaseModel): topic_id, question, answer: str; difficulty = "medium"
ValidCreateCard(body) ==
    /\ {"topic_id", "question", "answer"} \subseteq DOMAIN body
    /\ body.topic_id # None /\ body.question # None /\ body.answer # None

CreateCard(body) ==
    [topic_id   |-> body.topic_id[1],
     question   |-> body.question[1],
     answer     |-> body.answer[1],
     difficulty |-> IF "difficulty" \in DOMAIN body THEN body.difficulty ELSE <<"medium">>]

\* AnswerPayload(BaseModel): card_id: str; topic_id: str; correct: bool
ValidAnswerPayload(body) ==
    /\ {"card_id", "topic_id", "correct"} \subseteq DOMAIN body
    /\ body.card_id # None /\ body.topic_id # None

AnswerPayload(body) ==
    [card_id  |-> body.card_id[1],
     topic_id |-> body.topic_id[1],
     correct  |-> body.correct]

\* ------------------------------------------------------------ responses
NoStats == << >>

Response(status, detail, id, items, stats) ==
    [status |-> status, detail |-> detail, id |-> id, items |-> items, stats |-> stats]

\* an outcome of (a part of) a handler: the store after it, the response, and
\* whether the handler goes on to its next statement
Returned(s, id, items, stats) ==
    [s |-> s, go |-> FALSE, resp |-> Response(200, "", id, items, stats)]

\* raise HTTPException(status_code, detail)
HTTPException(s, status, detail) ==
    [s |-> s, go |-> FALSE, resp |-> Response(status, detail, None, << >>, NoStats)]

\* any other exception leaves the handler: the framework answers 500
Unhandled(s) ==
    [s |-> s, go |-> FALSE,
     resp |-> Response(500, "Internal Server Error", None, << >>, NoStats)]

\* request validation failed before the handler ran
Unprocessable(s) ==
    [s |-> s, go |-> FALSE,
     resp |-> Response(422, "Unprocessable Entity", None, << >>, NoStats)]

\* the check passed: no response yet
Continue(s) ==
    [s |-> s, go |-> TRUE, resp |-> Response(0, "", None, << >>, NoStats)]

\* one read of the store through the handle
Read(s) == [s EXCEPT !.calls = @ + 1]

\* ------------------------------------------------------------ handlers
create_topic(s, payload) ==
    IF db = "None" THEN HTTPException(s, 500, "Database not configured")
    ELSE LET r == create_document(s, "topic", payload)
         IN  Returned(r.s, <<r.id>>, << >>, NoStats)

\* mutant: the handle is not checked; None["topic"] raises TypeError
M_list_topics(s) ==
    IF db = "None" THEN Unhandled(s)
    ELSE LET docs == get_documents(s, "topic", << >>)
         IN  Returned(Read(s), None, SerializeAll(docs), NoStats)

list_topics(s) ==
    IF db = "None" THEN HTTPException(s, 500, "Database not configured")
    ELSE LET docs == get_documents(s, "topic", << >>)
         IN  Returned(Read(s), None, SerializeAll(docs), NoStats)

\* mutant: the Topic lookup is left out
M_create_card_check(s, payload) ==
    IF db = "None" THEN HTTPException(s, 500, "Database not configured")
    ELSE Continue(s)

\* lines 78-83: the handle check and the Topic lookup.  ObjectId(...) is
\* outside any try: InvalidId leaves the handler.
create_card_check(s, payload) ==
    IF db = "None" THEN HTTPException(s, 500, "Database not configured")
    ELSE IF ~IsValidOid(payload.topic_id) THEN Unhandled(s)
    ELSE IF FindOneById(s.topic, ObjectId(payload.topic_id)) = None
         THEN HTTPException(Read(s), 404, "Topic not found")
         ELSE Continue(Read(s))

\* lines 84-85
create_card_insert(s, payload) ==
    LET r == create_document(s, "card", payload)
    IN  Returned(r.s, <<r.id>>, << >>, NoStats)

\* mutant: the card is inserted before the Topic lookup decides
M_create_card(s, payload) ==
    LET c == create_card_check(s, payload)
        r == create_card_insert(s, payload)
    IN  IF db = "None" THEN c
        ELSE IF c.go THEN r ELSE [c EXCEPT !.s = r.s]

create_card(s, payload) ==
    LET c == create_card_check(s, payload)
    IN  IF c.go THEN create_card_insert(c.s, payload) ELSE c

\* if topic_id: None and "" are both falsy
Truthy(opt) == opt # None /\ opt[1] # ""

TopicQuery(topic_id) == IF Truthy(topic_id) THEN [topic_id |-> topic_id[1]] ELSE << >>

\* mutant: the filter is dropped
M_list_cards(s, topic_id) ==
    IF db = "None" THEN HTTPException(s, 500, "Database not configured")
    ELSE LET docs == get_documents(s, "card", << >>)
         IN  Returned(Read(s), None, SerializeAll(docs), NoStats)

list_cards(s, topic_id) ==
    IF db = "None" THEN HTTPException(s, 500, "Database not configured")
    ELSE LET docs == get_documents(s, "card", TopicQuery(topic_id))
         IN  Returned(Read(s), None, SerializeAll(docs), NoStats)

\* mutant: the failed lookup is swallowed and the handler goes on
M_submit_answer_check(s, payload) ==
    IF db = "None" THEN HTTPException(s, 500, "Database not configured")
    ELSE Continue(Read(s))

\* lines 98-106: the handle check and the Card lookup.  ObjectId(...) is
\* inside the try: InvalidId gives card = None.
submit_answer_check(s, payload) ==
    IF db = "None" THEN HTTPException(s, 500, "Database not configured")
    ELSE LET found == IF IsValidOid(payload.card_id)
                      THEN FindOneById(s.card, ObjectId(payload.card_id))
                      ELSE None
             s1 == IF IsValidOid(payload.card_id) THEN Read(s) ELSE s
         IN  IF found = None
             THEN HTTPException(s1, 404, "Card not found")
             ELSE Continue(s1)

\* lines 107-108
submit_answer_insert(s, payload) ==
    LET r == create_document(s, "studylog", payload)
    IN  Returned(r.s, <<r.id>>, << >>, NoStats)

submit_answer(s, payload) ==
    LET c == submit_answer_check(s, payload)
    IN  IF c.go THEN submit_answer_insert(c.s, payload) ELSE c

RECURSIVE GCD(_, _)
GCD(a, b) == IF b = 0 THEN a ELSE GCD(b, a % b)

\* correct/total for total # 0, as a fraction in lowest terms
TrueDiv(a, b) == [num |-> a \div GCD(a, b), den |-> b \div GCD(a, b)]

\* the literal 0 of the else branch
Zero == [num |-> 0, den |-> 1]

\* mutant: every matching log is counted as correct
M_get_progress(s, topic_id) ==
    IF db = "None" THEN HTTPException(s, 500, "Database not configured")
    ELSE LET logs == Find(s.studylog, TopicQuery(topic_id))
             total == Len(logs)
             accuracy == IF total # 0 THEN TrueDiv(total, total) ELSE Zero
         IN  Returned(Read(s), None, << >>,
                      <<[total |-> total, correct |-> total, accuracy |-> accuracy]>>)

get_progress(s, topic_id) ==
    IF db = "None" THEN HTTPException(s, 500, "Database not configured")
    ELSE LET logs == Find(s.studylog, TopicQuery(topic_id))
             total == Len(logs)
             IsCorrect(l) == l.correct
             correct == Len(SelectSeq(logs, IsCorrect))
             accuracy == IF total # 0 THEN TrueDiv(correct, total) ELSE Zero
         IN  Returned(Read(s), None, << >>,
                      <<[total |-> total, correct |-> correct, accuracy |-> accuracy]>>)

\* ------------------------------------------------------------ inputs
\* src/schemas.py: the declared field constraints
MinLength == 1
MaxNameLength == 100
MaxDescriptionLength == 300
MaxQuestionLength == 1000
MaxAnswerLength == 2000
Difficulties == {"easy", "medium", "hard"}

TooLongDescription == Repeat("y", MaxDescriptionLength + 1)

\* identifier strings a client may send: the canonical form of each id the
\* store can assign, an upper-case spelling, and two strings that are no id
IdStrings == {HexOf(n) : n \in 1..MaxDocs} \cup {UpperOf(1), "nonexistent", ""}

TopicBodies ==
    { [name |-> <<"Algebra">>],
      [name |-> <<"">>, description |-> <<TooLongDescription>>],
      [description |-> <<"Basics">>] }

CardBodies ==
    { [topic_id |-> <<t>>, question |-> <<"2+2?">>, answer |-> <<"4">>] : t \in IdStrings }
    \cup { [topic_id |-> <<HexOf(1)>>, question |-> <<"">>, answer |-> <<"">>,
            difficulty |-> <<"impossible">>],
          [topic_id |-> <<HexOf(1)>>, question |-> <<"2+2?">>] }

LogTopicIds == {HexOf(1), ""}

AnswerBodies ==
    { [card_id |-> <<c>>, topic_id |-> <<HexOf(1)>>, correct |-> TRUE] : c \in IdStrings }
    \cup { [card_id |-> <<c>>, topic_id |-> <<"">>, correct |-> FALSE] : c \in IdStrings }
    \cup { [card_id |-> <<HexOf(1)>>, correct |-> TRUE] }

Filters == {None} \cup {<<x>> : x \in {"", HexOf(1), UpperOf(1)}}

\* ------------------------------------------------------------ the machine
NoRequest == [op |-> "none", req |-> << >>, valid |-> FALSE, calls |-> 0,
              resp |-> Response(0, "", None, << >>, NoStats)]

Init ==
    /\ db \in {"None", "Database"}
    /\ topic = << >>
    /\ card = << >>
    /\ studylog = << >>
    /\ nextOid = 1
    /\ inflight = EmptyBag
    /\ issued = {}
    /\ last = NoRequest

\* the store takes the handler's writes; the client sees the response
Respond(op, req, valid, out, cap) ==
    /\ out.s.nextOid = nextOid \/ out.s.nextOid <= cap + 1
    /\ topic' = out.s.topic
    /\ card' = out.s.card
    /\ studylog' = out.s.studylog
    /\ nextOid' = out.s.nextOid
    /\ last' = [op |-> op, req |-> req, valid |-> valid, calls |-> out.s.calls,
                resp |-> out.resp]
    /\ issued' = IF op = "create_topic" /\ out.resp.status = 200
                 THEN issued \cup {[id |-> out.resp.id[1], name |-> req.name,
                                    description |-> req.description]}
                 ELSE issued
    /\ UNCHANGED db

PostTopics(body) ==
    /\ IF ValidCreateTopic(body)
       THEN Respond("create_topic", CreateTopic(body), TRUE,
                    create_topic(Store, CreateTopic(body)), MaxDocs)
       ELSE Respond("create_topic", body, FALSE, Unprocessable(Store), MaxDocs)
    /\ UNCHANGED inflight

GetTopics ==
    /\ Respond("list_topics", << >>, TRUE, list_topics(Store), MaxDocs)
    /\ UNCHANGED inflight

PostCards(body) ==
    /\ IF ValidCreateCard(body)
       THEN Respond("create_card", CreateCard(body), TRUE,
                    create_card(Store, CreateCard(body)), MaxDocs)
       ELSE Respond("create_card", body, FALSE, Unprocessable(Store), MaxDocs)
    /\ UNCHANGED inflight

GetCards(topic_id) ==
    /\ Respond("list_cards", [topic_id |-> topic_id], TRUE,
               list_cards(Store, topic_id), MaxDocs)
    /\ UNCHANGED inflight

PostAnswer(body, cap) ==
    /\ IF ValidAnswerPayload(body)
       THEN Respond("submit_answer", AnswerPayload(body), TRUE,
                    submit_answer(Store, AnswerPayload(body)), cap)
       ELSE Respond("submit_answer", body, FALSE, Unprocessable(Store), cap)
    /\ UNCHANGED inflight

GetProgress(topic_id) ==
    /\ Respond("get_progress", [topic_id |-> topic_id], TRUE,
               get_progress(Store, topic_id), MaxDocs)
    /\ UNCHANGED inflight

Next ==
    \/ \E body \in TopicBodies : PostTopics(body)
    \/ GetTopics
    \/ \E body \in CardBodies : PostCards(body)
    \/ \E f \in Filters : GetCards(f)
    \/ \E body \in AnswerBodies : PostAnswer(body, MaxDocs)
    \/ \E f \in Filters : GetProgress(f)

Spec == Init /\ [][Next]_vars

\* ------------------------------------------- interleaved requests
\* The existence check and the insert are two store calls: between them any
\* other request may run.  A request that passed its check waits in inflight.
ConcTopicBodies == { [name |-> <<"Algebra">>] }

ConcCardBodies ==
    { [topic_id |-> <<t>>, question |-> <<"2+2?">>, answer |-> <<"4">>] : t \in IdStrings }

ConcAnswerBodies ==
    { [card_id |-> <<c>>, topic_id |-> <<t>>, correct |-> TRUE] :
        c \in IdStrings, t \in LogTopicIds }

Pending(op, payload, s) == [op |-> op, payload |-> payload, calls |-> s.calls]

\* the handler up to its existence check
Begin(op, payload, c) ==
    IF c.go
    THEN /\ BagCardinality(inflight) < MaxInflight
         /\ inflight' = inflight (+) SetToBag({Pending(op, payload, c.s)})
         /\ UNCHANGED <<db, topic, card, studylog, nextOid, issued, last>>
    ELSE /\ Respond(op, payload, TRUE, c, MaxDocs)
         /\ UNCHANGED inflight

BeginPostCards(body) ==
    /\ ValidCreateCard(body)
    /\ Begin("create_card", CreateCard(body), create_card_check(Store, CreateCard(body)))

BeginPostAnswer(body) ==
    /\ ValidAnswerPayload(body)
    /\ Begin("submit_answer", AnswerPayload(body),
             submit_answer_check(Store, AnswerPayload(body)))

\* the handler from its insert on
FinishPostCards(r) ==
    /\ r.op = "create_card"
    /\ Respond(r.op, r.payload, TRUE,
               create_card_insert([Store EXCEPT !.calls = r.calls], r.payload), MaxDocs)
    /\ inflight' = inflight (-) SetToBag({r})

FinishPostAnswer(r) ==
    /\ r.op = "submit_answer"
    /\ Respond(r.op, r.payload, TRUE,
               submit_answer_insert([Store EXCEPT !.calls = r.calls], r.payload), MaxDocs)
    /\ inflight' = inflight (-) SetToBag({r})

ConcNext ==
    \/ \E body \in ConcTopicBodies : PostTopics(body)
    \/ \E body \in ConcCardBodies : BeginPostCards(body)
    \/ \E r \in BagToSet(inflight) : FinishPostCards(r)
    \/ \E body \in ConcAnswerBodies : BeginPostAnswer(body)
    \/ \E r \in BagToSet(inflight) : FinishPostAnswer(r)

ConcSpec == Init /\ [][ConcNext]_vars

\* ------------------------------------------- answers and progress
\* A store that holds one Topic and one Card of it (the state after create
\* topic and create card), then any answers and progress requests.
SeedTopic == ("_id" :> ObjectId(HexOf(1))) @@ CreateTopic([name |-> <<"Algebra">>])

SeedCard ==
    ("_id" :> ObjectId(HexOf(2)))
    @@ CreateCard([topic_id |-> <<HexOf(1)>>, question |-> <<"2+2?">>, answer |-> <<"4">>])

ProgressInit ==
    /\ db = "Database"
    /\ topic = <<SeedTopic>>
    /\ card = <<SeedCard>>
    /\ studylog = << >>
    /\ nextOid = Len(topic) + Len(card) + 1
    /\ inflight = EmptyBag
    /\ issued = {[id |-> HexOf(1), name |-> "Algebra", description |-> None]}
    /\ last = NoRequest

ProgressAnswerBodies ==
    { [card_id |-> <<HexOf(2)>>, topic_id |-> <<t>>, correct |-> b] :
        t \in LogTopicIds, b \in BOOLEAN }

ProgressNext ==
    \/ \E body \in ProgressAnswerBodies :
           PostAnswer(body, Len(topic) + Len(card) + MaxLogs)
    \/ \E f \in Filters : GetProgress(f)

ProgressSpec == ProgressInit /\ [][ProgressNext]_vars

\* ================================================================ claims
\* the string names a record of the collection: it is a well-formed id and a
\* record carries the ObjectId it spells
Identifies(str, coll) ==
    /\ IsValidOid(str)
    /\ \E d \in Range(coll) : d["_id"] = ObjectId(str)

IsPrefix(a, b) == Len(a) <= Len(b) /\ a = SubSeq(b, 1, Len(a))

NotFound(what) == Response(404, what, None, << >>, NoStats)

\* the step is a handled request op (the payload passed validation, the store
\* handle is there)
Handled(op) == db = "Database" /\ last.valid /\ last.op = op

\* C1: a create-card request whose topic_id identifies no Topic of the store is
\* answered 404 with no id, and the card collection is left as it was.
C1_CreateCardUnknownTopic ==
    [][ (db = "Database" /\ last'.valid /\ last'.op = "create_card"
         /\ ~Identifies(last'.req.topic_id, topic))
        => (last'.resp.status = 404 /\ last'.resp.id = None /\ card' = card) ]_vars

\* C2: a submit-answer request whose card_id identifies no Card of the store is
\* answered 404 with no id, and the studylog collection is left as it was.
C2_SubmitAnswerUnknownCard ==
    [][ (db = "Database" /\ last'.valid /\ last'.op = "submit_answer"
         /\ ~Identifies(last'.req.card_id, card))
        => (last'.resp.status = 404 /\ last'.resp.id = None /\ studylog' = studylog) ]_vars

\* C2 witness: a well-formed id that names no Card (there is a Card) was refused
C2_Witness ==
    /\ Handled("submit_answer")
    /\ card # << >>
    /\ IsValidOid(last.req.card_id)
    /\ ~Identifies(last.req.card_id, card)
    /\ last.resp.status = 404

\* C3: in both existence checks an identifier that is not well-formed gets the
\* very not-found response a well-formed identifier naming no record gets.
C3_MalformedIdIsNotFound ==
    /\ (Handled("create_card") /\ ~IsValidOid(last.req.topic_id))
          => last.resp = NotFound("Topic not found")
    /\ (Handled("submit_answer") /\ ~IsValidOid(last.req.card_id))
          => last.resp = NotFound("Card not found")

\* what get progress is to report over the logs at the positions sel
ProgressIs(stats, sel) ==
    LET total == Cardinality(sel)
        correct == Cardinality({i \in sel : studylog[i].correct})
    IN  /\ stats.total = total
        /\ stats.correct = correct
        /\ 0 <= stats.correct /\ stats.correct <= stats.total
        /\ stats.accuracy.den > 0
        /\ IF total > 0
           THEN stats.accuracy.num * total = correct * stats.accuracy.den
           ELSE stats.accuracy.num = 0

\* C4 as stated: with filter t, total counts the logs whose topic_id equals t
\* (all logs when the filter is omitted), correct those of them that are
\* correct, accuracy is correct/total, or 0 when total = 0.
C4_ProgressOfFilter ==
    (Handled("get_progress") /\ last.resp.status = 200) =>
        LET f == last.req.topic_id
        IN  ProgressIs(last.resp.stats[1],
                       {i \in DOMAIN studylog : f = None \/ studylog[i].topic_id = f[1]})

\* C4 amended: the same for every non-empty filter t; an empty filter counts
\* all logs, like an omitted one.
C4_ProgressOfNonEmptyFilter ==
    (Handled("get_progress") /\ last.resp.status = 200) =>
        LET f == last.req.topic_id
        IN  ProgressIs(last.resp.stats[1],
                       {i \in DOMAIN studylog :
                            f = None \/ f[1] = "" \/ studylog[i].topic_id = f[1]})

\* C4 witness: a non-empty filter selected some of the logs, not all, and some
\* of the selected ones are correct, not all
C4_Witness ==
    /\ Handled("get_progress")
    /\ Truthy(last.req.topic_id)
    /\ last.resp.stats[1].total < Len(studylog)
    /\ 0 < last.resp.stats[1].correct
    /\ last.resp.stats[1].correct < last.resp.stats[1].total

\* what list cards is to return over the cards at the positions sel: each of
\* them, with its _id as a string, and nothing else
CardsAre(items, sel) ==
    /\ \A i \in DOMAIN items : \E j \in sel :
           items[i] = [card[j] EXCEPT !["_id"] = [t |-> "str", v |-> card[j]["_id"].v]]
    /\ \A j \in sel : \E i \in DOMAIN items : items[i]["_id"].v = card[j]["_id"].v
    /\ Len(items) = Cardinality(sel)

\* C5 as stated: for every filter value supplied, the empty string included,
\* list cards returns exactly the cards whose topic_id equals it; all cards
\* when the parameter is omitted.
C5_CardsOfFilter ==
    (Handled("list_cards") /\ last.resp.status = 200) =>
        LET f == last.req.topic_id
        IN  CardsAre(last.resp.items,
                     {j \in DOMAIN card : f = None \/ card[j].topic_id = f[1]})

\* C5 amended: for every non-empty filter value list cards returns exactly the
\* cards whose topic_id equals it; all cards when the parameter is omitted or
\* is the empty string.
C5_CardsOfNonEmptyFilter ==
    (Handled("list_cards") /\ last.resp.status = 200) =>
        LET f == last.req.topic_id
        IN  CardsAre(last.resp.items,
                     {j \in DOMAIN card : f = None \/ f[1] = "" \/ card[j].topic_id = f[1]})

\* C5 witness: a non-empty filter returned some of the cards and left one out
C5_Witness ==
    /\ Handled("list_cards")
    /\ Truthy(last.req.topic_id)
    /\ Len(last.resp.items) > 0
    /\ Len(last.resp.items) < Len(card)

\* C6: once create topic has returned id i, every list topics result holds a
\* record with the submitted name and description whose _id is the non-empty
\* string i.
C6_CreatedTopicIsListed ==
    (Handled("list_topics") /\ last.resp.status = 200) =>
        \A k \in issued :
            /\ k.id # ""
            /\ \E i \in DOMAIN last.resp.items :
                   /\ last.resp.items[i]["_id"] = [t |-> "str", v |-> k.id]
                   /\ last.resp.items[i].name = k.name
                   /\ last.resp.items[i].description = k.description

\* C6 witness: two topics were created and then listed
C6_Witness ==
    /\ Handled("list_topics")
    /\ Cardinality(issued) >= 2
    /\ Len(last.resp.items) >= 2

\* C7: with the store handle not initialised every handler answers 500
\* "Database not configured" and has made no store call.
C7_NoHandleFailsFast ==
    (db = "None" /\ last.valid) =>
        /\ last.resp = Response(500, "Database not configured", None, << >>, NoStats)
        /\ last.calls = 0
        /\ topic = << >> /\ card = << >> /\ studylog = << >>

\* C7 witness: a list request was refused for want of the handle
C7_Witness ==
    /\ db = "None"
    /\ last.op = "list_topics"
    /\ last.resp.status = 500

\* C8: records are create-only.  A step keeps every record, with its fields, in
\* its collection; a successful create adds one record to its own collection
\* and leaves the other two alone; any other request changes no collection.
Creates == [create_topic |-> "topic", create_card |-> "card", submit_answer |-> "studylog"]

C8_CreateOnly ==
    [][ LET old == [topic |-> topic, card |-> card, studylog |-> studylog]
            new == [topic |-> topic', card |-> card', studylog |-> studylog']
            created == last'.op \in DOMAIN Creates /\ last'.resp.status = 200
        IN  /\ \A k \in DOMAIN old : IsPrefix(old[k], new[k])
            /\ created =>
                  /\ Len(new[Creates[last'.op]]) = Len(old[Creates[last'.op]]) + 1
                  /\ \A k \in DOMAIN old \ {Creates[last'.op]} : new[k] = old[k]
            /\ ~created => new = old ]_vars

\* C8 witness: each collection holds a record, the last one just created
C8_Witness ==
    /\ topic # << >> /\ card # << >> /\ studylog # << >>
    /\ last.op = "submit_answer"
    /\ last.resp.status = 200

\* C9: every persisted Topic and Card meets the declared field constraints.
TopicOK(d) ==
    /\ Len(d.name) >= MinLength /\ Len(d.name) <= MaxNameLength
    /\ d.description # None => Len(d.description[1]) <= MaxDescriptionLength

CardOK(d) ==
    /\ Len(d.question) >= MinLength /\ Len(d.question) <= MaxQuestionLength
    /\ Len(d.answer) >= MinLength /\ Len(d.answer) <= MaxAnswerLength
    /\ d.difficulty # None /\ d.difficulty[1] \in Difficulties

C9_PersistedRecordsValid ==
    /\ \A d \in Range(topic) : TopicOK(d)
    /\ \A d \in Range(card) : CardOK(d)

TypeOK ==
    /\ db \in {"None", "Database"}
    /\ nextOid \in 1..(MaxDocs + MaxLogs + 1)
    /\ Len(topic) + Len(card) + Len(studylog) = nextOid - 1

====
